---------------------------- MODULE Spec2Model ----------------------------
(*************************************************************************)
(* GooglePlacesSearch (src/google_places_api_search.py): the component's  *)
(* search_results pagination loop with its two helpers, get_place_details *)
(* and extract_valid_emails_from_website.                                 *)
(*                                                                        *)
(* Conventions.  A Python value that may be missing (a dict key that is   *)
(* absent, or None) is a sequence of length 0 or 1: <<>> is "absent",     *)
(* <<v>> is "present with value v".  Ratings are in tenths (4.5 -> 45).   *)
(* A page cursor is a positive integer, 0 is "no cursor".  A string whose *)
(* characters matter (an e-mail address) is a sequence of one-character   *)
(* strings.                                                               *)
(*************************************************************************)
EXTENDS Integers, Sequences, FiniteSets, TLC

VARIABLES
    max_results, min_rating, max_price_level, scrape_emails, max_emails,
    pc, params, all_results, fetched, max_fetch, data, idx,
    details, website, email, exc, status, output,
    upstream, searches, clock, trace,
    site, emails_out

inputs == <<max_results, min_rating, max_price_level, scrape_emails, max_emails>>
locals == <<params, all_results, fetched, max_fetch, data, idx, details, website, email>>
result == <<exc, status, output>>
history == <<upstream, searches, clock, trace>>
scraper == <<site, emails_out>>
vars == <<inputs, pc, locals, result, history, scraper>>

-----------------------------------------------------------------------------
(* Bounds of the model *)

\* places the upstream serves in one run, over all its pages
MaxPlaces == 2
\* pages the upstream serves in one run
MaxPages == 2
\* the uniform upstream: pages of BulkPageLen acceptable places, BulkPages of them
BulkPageLen == 20
BulkPages == 4
\* addresses the e-mail pattern matches in one fetched web page
MaxMatches == 3

(* Program constants *)

\* `self.max_results or 20`
DefaultMaxResults == 20
\* `min(..., 60)`
MaxFetchCap == 60
\* `time.sleep(2)`
SleepSeconds == 2
\* `response.status_code != 200`
HttpOk == 200

-----------------------------------------------------------------------------
(* Python helpers *)

Min(a, b) == IF a <= b THEN a ELSE b
Max(a, b) == IF a >= b THEN a ELSE b

\* `a or b` on integers: 0 is falsy
PyOr(a, b) == IF a # 0 THEN a ELSE b

\* dict.get(key, default)
Get(opt, default) == IF opt = <<>> THEN default ELSE opt[1]

\* seq[:n] with Python's meaning of a negative n (all but the last -n)
PySliceTo(s, n) ==
    LET k == IF n >= 0 THEN Min(n, Len(s)) ELSE Max(Len(s) + n, 0)
    IN  SubSeq(s, 1, k)

\* the characters of the model's strings, in code-point order
CodeOrder ==
    << " ", ",", ".", "2", "@",
       "A", "E", "L", "M", "P", "X", "Z",
       "a", "b", "c", "d", "e", "f", "g", "i", "j", "l", "m", "n", "o",
       "p", "s", "v", "x", "y", "z" >>

Ord(c) == CHOOSE i \in 1..Len(CodeOrder) : CodeOrder[i] = c

\* str.lower(), on the characters of the model
Lower(c) ==
    CASE c = "A" -> "a" [] c = "E" -> "e" [] c = "L" -> "l" [] c = "M" -> "m"
      [] c = "P" -> "p" [] c = "X" -> "x" [] c = "Z" -> "z"
      [] OTHER -> c

LowerStr(s) == [i \in 1..Len(s) |-> Lower(s[i])]

\* `needle in hay`
Contains(hay, needle) ==
    \E i \in 0..(Len(hay) - Len(needle)) :
        \A j \in 1..Len(needle) : hay[i + j] = needle[j]

\* a < b on strings: lexicographic by code point, a proper prefix is smaller
RECURSIVE StrLess(_, _)
StrLess(a, b) ==
    IF b = <<>> THEN FALSE
    ELSE IF a = <<>> THEN TRUE
    ELSE IF a[1] = b[1] THEN StrLess(Tail(a), Tail(b))
    ELSE Ord(a[1]) < Ord(b[1])

\* sorted(S) for a set of strings
RECURSIVE Sorted(_)
Sorted(S) ==
    IF S = {} THEN <<>>
    ELSE LET m == CHOOSE x \in S : \A y \in S \ {x} : StrLess(x, y)
         IN  <<m>> \o Sorted(S \ {m})

\* sep.join(list)
RECURSIVE Join(_, _)
Join(list, sep) ==
    IF list = <<>> THEN <<>>
    ELSE IF Len(list) = 1 THEN list[1]
    ELSE list[1] \o sep \o Join(Tail(list), sep)

Range(s) == {s[i] : i \in 1..Len(s)}

\* the sequences over S of length at most n
SeqsUpTo(S, n) == UNION {[1..k -> S] : k \in 0..n}

-----------------------------------------------------------------------------
(* extract_valid_emails_from_website *)

\* the substrings that disqualify a match
Denylist ==
    << <<"e","x","a","m","p","l","e">>, <<".","p","n","g">>, <<".","j","p","g">>,
       <<".","j","p","e","g">>, <<".","s","v","g">>, <<".","c","s","s">>,
       <<".","j","s">> >>

IsValidEmail(e) ==
    ~ \E k \in 1..Len(Denylist) : Contains(LowerStr(e), Denylist[k])

CommaSpace == <<",", " ">>

\* A fetched page is [net, status_code, empty, raw_emails]: whether requests.get
\* returned, the status, whether response.text is empty, and the matches of the
\* e-mail pattern in response.text, in document order.
extract_valid_emails_from_website(resp, maxEmails) ==
    IF resp.net = "error" THEN <<>>
    ELSE IF resp.status_code # HttpOk \/ resp.empty THEN <<>>
    ELSE LET valid_emails == {e \in Range(resp.raw_emails) : IsValidEmail(e)}
             cut == PySliceTo(Sorted(valid_emails), maxEmails)
         IN  IF cut = <<>> THEN <<>> ELSE << Join(cut, CommaSpace) >>

-----------------------------------------------------------------------------
(* The upstream: what the three HTTP endpoints can answer *)

Addr1 == <<"a","@","b",".","f","i">>
Addr2 == <<"Z","@","b",".","f","i">>
Addr3 == <<"x","@","y",".","j","s">>
Addr4 == <<"a","@","E","X","A","M","P","L","E",".","i","o">>
Addr5 == <<"i","@","2","x",".","p","n","g">>
Addr6 == <<"c","@","d",".","j","p">>

\* what the e-mail pattern can match in a page
EmailPool == {Addr1, Addr2, Addr3, Addr4, Addr5, Addr6}

PageOk(raw) == [net |-> "ok", status_code |-> HttpOk, empty |-> FALSE, raw_emails |-> raw]
PageNetError == [net |-> "error", status_code |-> 0, empty |-> TRUE, raw_emails |-> <<>>]
PageNotFound == [net |-> "ok", status_code |-> 404, empty |-> FALSE, raw_emails |-> <<Addr1>>]
PageEmpty == [net |-> "ok", status_code |-> HttpOk, empty |-> TRUE, raw_emails |-> <<>>]

\* every answer of a web site, for the scraper taken alone
AllPages ==
    {PageNetError, PageNotFound, PageEmpty}
        \cup {PageOk(raw) : raw \in SeqsUpTo(EmailPool, MaxMatches)}

\* the answers of the web sites the places of the model point to
SiteResponses(url) ==
    IF url = "http://a.fi"
    THEN {PageNetError, PageNotFound, PageEmpty, PageOk(<<Addr2, Addr3, Addr1, Addr6, Addr1>>)}
    ELSE {PageOk(<<Addr6, Addr4, Addr1>>)}

\* A JSON value found under "result": t is "obj" (an object, with the three
\* fields the component reads), "null" or "str".
DetailObj(w, f, i) ==
    [t |-> "obj", website |-> w, formatted_phone_number |-> f,
     international_phone_number |-> i]
EmptyDict == DetailObj(<<>>, <<>>, <<>>)
JsonNull == [t |-> "null", website |-> <<>>, formatted_phone_number |-> <<>>,
             international_phone_number |-> <<>>]
JsonStr == [t |-> "str", website |-> <<>>, formatted_phone_number |-> <<>>,
            international_phone_number |-> <<>>]

\* A details response is [net, http, body, result]: whether requests.get
\* returned, whether the status is below 400, what the body parses to ("dict",
\* "list" or "notjson"), and the value under "result" when it is a dict that
\* has the key.
DetailsResp(net, http, body, res) == [net |-> net, http |-> http, body |-> body, result |-> res]

DetailsFailures ==
    { DetailsResp("error", "ok", "notjson", <<>>),
      DetailsResp("ok", "error", "notjson", <<>>),
      DetailsResp("ok", "ok", "notjson", <<>>),
      DetailsResp("ok", "ok", "list", <<>>),
      DetailsResp("ok", "ok", "dict", <<>>) }

DetailsResponses(place_id) ==
    CASE place_id = "pA" ->
            {DetailsResp("ok", "ok", "dict",
                         <<DetailObj(<<"http://a.fi">>, <<"040">>, <<"+358 40">>)>>)}
      [] place_id = "pB" -> DetailsFailures
      [] place_id = "pC" ->
            {DetailsResp("ok", "ok", "dict", <<DetailObj(<<>>, <<>>, <<"+358 50">>)>>)}
      [] place_id = "pD" ->
            {DetailsResp("ok", "ok", "dict", <<JsonNull>>),
             DetailsResp("ok", "ok", "dict", <<JsonStr>>)}
      [] place_id = "pK" ->
            {DetailsResp("ok", "ok", "dict",
                         <<DetailObj(<<"http://k.fi">>, <<"041">>, <<>>)>>)}
      [] OTHER -> {DetailsResp("ok", "ok", "dict", <<EmptyDict>>)}

\* A place of a text-search page: the fields search_results reads that decide
\* what it does (rating and price_level in the filter, photos in the row).
Place(id, r, p, ph) == [place_id |-> id, rating |-> r, price_level |-> p, photos |-> ph]

PlaceA == Place("pA", <<45>>, <<2>>, <<<<"ref">>>>)
PlaceB == Place("pB", <<>>, <<>>, <<>>)
PlaceC == Place("pC", <<30>>, <<4>>, <<>>)
PlaceD == Place("pD", <<50>>, <<1>>, <<>>)
PlaceE == Place("pE", <<48>>, <<>>, << <<>> >>)
PlaceK == Place("pK", <<45>>, <<2>>, <<<<"ref">>>>)

PlacePool == {PlaceA, PlaceB, PlaceC, PlaceD, PlaceE}

\* A text-search response is [net, http, json, results, next_page_token].
SearchResp(net, http, json, res, tok) ==
    [net |-> net, http |-> http, json |-> json, results |-> res, next_page_token |-> tok]

SearchFailures ==
    { SearchResp("error", "ok", FALSE, <<>>, 0),
      SearchResp("ok", "error", FALSE, <<>>, 0),
      SearchResp("ok", "ok", FALSE, <<>>, 0) }

\* The pages the upstream has: MaxPages in the varied mode, BulkPages in the bulk one.
PagesOf(mode) == IF mode = "bulk" THEN BulkPages ELSE MaxPages

\* The answers to the next text-search request, given what the upstream has
\* served so far: up.pageNo pages holding up.served places.
SearchResponses(up) ==
    LET toks == {0} \cup (IF up.pageNo + 1 < PagesOf(up.mode) THEN {up.pageNo + 2} ELSE {})
    IN  IF up.mode = "bulk"
        THEN {SearchResp("ok", "ok", TRUE, [i \in 1..BulkPageLen |-> PlaceK], t) : t \in toks}
        ELSE SearchFailures \cup
             {SearchResp("ok", "ok", TRUE, res, t) :
                 res \in SeqsUpTo(PlacePool, MaxPlaces - up.served), t \in toks}

-----------------------------------------------------------------------------
(* get_place_details *)

\* The dict (or other JSON value) get_place_details returns for a response:
\* {} when requests.get, raise_for_status, resp.json() or .get raises, the
\* value under "result" when the body is a dict that has it, {} when it has not.
get_place_details(resp) ==
    IF resp.net = "error" \/ resp.http = "error" THEN EmptyDict
    ELSE IF resp.body # "dict" THEN EmptyDict
    ELSE Get(resp.result, EmptyDict)

-----------------------------------------------------------------------------
(* search_results *)

None == <<>>

\* an event of the run: a text-search request, a sleep, or a step on place i of page pg
\* (w: the website of the fetched detail; fault: the details response was not a
\* well-formed one, that is, get_place_details did not get an object under "result")
Ev(op, pg, i, id, w, fault) ==
    [op |-> op, pg |-> pg, i |-> i, id |-> id, w |-> w, fault |-> fault]

\* whether a details response is anything but a 2xx JSON dict holding an object "result"
Faulty(resp) ==
    \/ resp.net = "error"
    \/ resp.http = "error"
    \/ resp.body # "dict"
    \/ resp.result = <<>>
    \/ resp.result[1].t # "obj"

\* how a text-search request ended, for the log of requests
Outcome(resp) ==
    IF resp.net = "error" THEN "network"
    ELSE IF resp.http = "error" THEN "http"
    ELSE IF ~resp.json THEN "notjson"
    ELSE "ok"

CurPlace == data.results[idx]

\* (mutant: the clamp to 60 forgotten)
MaxFetch_NoClamp(maxResults) == PyOr(maxResults, DefaultMaxResults)

\* `min(self.max_results or 20, 60)`
MaxFetch(maxResults) == Min(PyOr(maxResults, DefaultMaxResults), MaxFetchCap)

\* (mutant: the price test forgotten)
Rejected_RatingOnly(rating, price_level) == rating < min_rating

\* `rating < self.min_rating or price_level > self.max_price_level`
Rejected(rating, price_level) == rating < min_rating \/ price_level > max_price_level

\* the row appended for a place (the fields that vary in the model)
Row(place, det, site_, mail) ==
    [place_id |-> place.place_id,
     rating |-> Get(place.rating, 0),
     price_level |-> Get(place.price_level, 0),
     phone_number |-> IF det.formatted_phone_number # <<>>
                      THEN det.formatted_phone_number
                      ELSE det.international_phone_number,
     website |-> site_,
     emails |-> mail]

\* (mutant: the query sent again instead of the cursor)
NextParams_KeepQuery(token) == [query |-> TRUE, pagetoken |-> 0]

\* `params = {"pagetoken": next_page_token, "key": ...}`
NextParams(token) == [query |-> FALSE, pagetoken |-> token]

\* (mutant: the cap test of line 190 forgotten)
StopPaging_TokenOnly(token) == token = 0

\* `if not next_page_token or fetched >= max_fetch: break`
StopPaging(token) == token = 0 \/ fetched >= max_fetch

\* (mutant: the empty case forgotten)
FinalTable_NoMessage(rows) == [columns |-> "place", rows |-> rows]

\* `pd.DataFrame({"message": ["No results found."]})` or `pd.DataFrame(all_results)`
FinalTable(rows) ==
    IF rows = <<>>
    THEN [columns |-> "message", rows |-> << [message |-> "No results found."] >>]
    ELSE [columns |-> "place", rows |-> rows]

\* (mutant: the error row added to the rows accumulated so far)
ErrorTable_WithRows(e) ==
    [columns |-> "error", rows |-> all_results \o << [error |-> e] >>]

\* `pd.DataFrame({"error": [str(e)]})`
ErrorTable(e) == [columns |-> "error", rows |-> << [error |-> e] >>]

\* an exception of type e raised at a line of search_results
Raise(e, line) == /\ exc' = [type |-> e, line |-> line]
                  /\ pc' = "except"

NoExc == [type |-> "", line |-> 0]

\* (mutant: an empty page goes round the while loop instead of leaving it)
AfterFetch_NoBreak(results) == IF results = <<>> THEN "while" ELSE "for"

\* `if not results: break`, else the for loop
AfterFetch(results) == IF results = <<>> THEN "after_loop" ELSE "for"

\* (mutant: the scrape_emails flag ignored)
NeedsScrape_IgnoreFlag(w) == w # <<>>

\* `if self.scrape_emails and website`
NeedsScrape(w) == scrape_emails /\ w # <<>>

\* lines 121-127
Start ==
    /\ pc = "start"
    /\ params' = [query |-> TRUE, pagetoken |-> 0]
    /\ all_results' = <<>>
    /\ fetched' = 0
    /\ max_fetch' = MaxFetch(max_results)
    /\ pc' = "while"
    /\ UNCHANGED <<inputs, data, idx, details, website, email, result, history, scraper>>

\* line 129
While ==
    /\ pc = "while"
    /\ pc' = IF fetched < max_fetch THEN "fetch" ELSE "after_loop"
    /\ UNCHANGED <<inputs, locals, result, history, scraper>>

\* lines 130-136
Fetch ==
    /\ pc = "fetch"
    /\ upstream.pageNo < PagesOf(upstream.mode)
    /\ \E resp \in SearchResponses(upstream) :
        /\ searches' = Append(searches,
               [query |-> params.query, cursor |-> params.pagetoken, at |-> clock,
                token |-> resp.next_page_token, outcome |-> Outcome(resp)])
        /\ trace' = Append(trace, Ev("search", upstream.pageNo + 1, 0, "-", <<>>, FALSE))
        /\ upstream' = [upstream EXCEPT !.pageNo = @ + 1, !.served = @ + Len(resp.results)]
        /\ IF resp.net = "error" THEN Raise("ConnectionError", 130) /\ UNCHANGED <<data, idx>>
           ELSE IF resp.http = "error" THEN Raise("HTTPError", 131) /\ UNCHANGED <<data, idx>>
           ELSE IF ~resp.json THEN Raise("JSONDecodeError", 132) /\ UNCHANGED <<data, idx>>
           ELSE /\ data' = [results |-> resp.results, next_page_token |-> resp.next_page_token]
                /\ idx' = 1
                /\ pc' = AfterFetch(resp.results)
                /\ exc' = exc
    /\ UNCHANGED <<inputs, params, all_results, fetched, max_fetch, details, website, email,
                   status, output, clock, scraper>>

\* lines 138-143: the next place of the page, and the filter
For ==
    /\ pc = "for"
    /\ IF idx > Len(data.results)
       THEN /\ pc' = "paginate"
            /\ UNCHANGED <<idx, trace>>
       ELSE LET rating == Get(CurPlace.rating, 0)
                price_level == Get(CurPlace.price_level, 0)
            IN  IF Rejected(rating, price_level)
                THEN /\ trace' = Append(trace, Ev("reject", upstream.pageNo, idx, CurPlace.place_id, <<>>, FALSE))
                     /\ idx' = idx + 1
                     /\ pc' = "for"
                ELSE /\ trace' = Append(trace, Ev("accept", upstream.pageNo, idx, CurPlace.place_id, <<>>, FALSE))
                     /\ idx' = idx
                     /\ pc' = "details"
    /\ UNCHANGED <<inputs, params, all_results, fetched, max_fetch, data, details, website,
                   email, result, upstream, searches, clock, scraper>>

\* lines 145-148 and the test of line 150
Details ==
    /\ pc = "details"
    /\ \E resp \in DetailsResponses(CurPlace.place_id) :
        LET d == get_place_details(resp)
        IN  /\ details' = d
            /\ trace' = Append(trace, Ev("details", upstream.pageNo, idx, CurPlace.place_id,
                                         IF d.t = "obj" THEN d.website ELSE <<>>, Faulty(resp)))
            /\ IF d.t # "obj"
               THEN /\ Raise("AttributeError", 147)
                    /\ UNCHANGED <<website, email>>
               ELSE /\ website' = d.website
                    /\ email' = None
                    /\ pc' = IF NeedsScrape(d.website) THEN "scrape" ELSE "append"
                    /\ exc' = exc
    /\ UNCHANGED <<inputs, params, all_results, fetched, max_fetch, data, idx, status, output,
                   upstream, searches, clock, scraper>>

\* line 151
Scrape ==
    /\ pc = "scrape"
    /\ \E resp \in SiteResponses(website[1]) :
        email' = extract_valid_emails_from_website(resp, max_emails)
    /\ trace' = Append(trace, Ev("scrape", upstream.pageNo, idx, CurPlace.place_id, website, FALSE))
    /\ pc' = "append"
    /\ UNCHANGED <<inputs, params, all_results, fetched, max_fetch, data, idx, details, website,
                   result, upstream, searches, clock, scraper>>

\* lines 153-187: `place.get("photos", [{}])[0]` raises on an empty list
AppendRow ==
    /\ pc = "append"
    /\ IF CurPlace.photos = << <<>> >>
       THEN /\ Raise("IndexError", 173)
            /\ UNCHANGED <<all_results, fetched, idx, trace>>
       ELSE /\ all_results' = Append(all_results, Row(CurPlace, details, website, email))
            /\ fetched' = fetched + 1
            /\ trace' = Append(trace, Ev("append", upstream.pageNo, idx, CurPlace.place_id, <<>>, FALSE))
            /\ IF fetched + 1 >= max_fetch
               THEN pc' = "paginate" /\ idx' = idx
               ELSE pc' = "for" /\ idx' = idx + 1
            /\ exc' = exc
    /\ UNCHANGED <<inputs, params, max_fetch, data, details, website, email, status, output,
                   upstream, searches, clock, scraper>>

\* lines 189-194
Paginate ==
    /\ pc = "paginate"
    /\ IF StopPaging(data.next_page_token)
       THEN /\ pc' = "after_loop"
            /\ UNCHANGED <<params, clock, trace>>
       ELSE /\ clock' = clock + SleepSeconds
            /\ trace' = Append(trace, Ev("sleep", upstream.pageNo, 0, "-", <<>>, FALSE))
            /\ params' = NextParams(data.next_page_token)
            /\ pc' = "while"
    /\ UNCHANGED <<inputs, all_results, fetched, max_fetch, data, idx, details, website, email,
                   result, upstream, searches, scraper>>

\* lines 196-200
AfterLoop ==
    /\ pc = "after_loop"
    /\ status' = IF all_results = <<>> THEN "No results found." ELSE status
    /\ output' = FinalTable(all_results)
    /\ pc' = "returned"
    /\ UNCHANGED <<inputs, locals, exc, history, scraper>>

\* lines 202-205
Except ==
    /\ pc = "except"
    /\ status' = "Error: " \o exc.type
    /\ output' = ErrorTable(exc.type)
    /\ pc' = "returned"
    /\ UNCHANGED <<inputs, locals, exc, history, scraper>>

-----------------------------------------------------------------------------
(* The runs of search_results *)

MaxResultsVals == {-1, 0, 1, 2, 61}
MinRatingVals == {0, 40}
MaxPriceVals == {3, 4}
MaxEmailsVals == {-1, 2}

NoPage == PageNetError
NotRun == << "not run" >>
NoTable == [columns |-> "none", rows |-> <<>>]

InitLocals ==
    /\ params = [query |-> TRUE, pagetoken |-> 0]
    /\ all_results = <<>>
    /\ fetched = 0
    /\ max_fetch = 0
    /\ data = [results |-> <<>>, next_page_token |-> 0]
    /\ idx = 1
    /\ details = EmptyDict
    /\ website = <<>>
    /\ email = None
    /\ exc = NoExc
    /\ status = ""
    /\ output = NoTable
    /\ searches = <<>>
    /\ clock = 0
    /\ trace = <<>>

Init ==
    /\ max_results \in MaxResultsVals
    /\ min_rating \in MinRatingVals
    /\ max_price_level \in MaxPriceVals
    /\ scrape_emails \in BOOLEAN
    /\ max_emails \in MaxEmailsVals
    /\ upstream \in [mode : {"varied", "bulk"}, pageNo : {0}, served : {0}]
    /\ pc = "start"
    /\ InitLocals
    /\ site = NoPage
    /\ emails_out = NotRun

Next ==
    \/ Start
    \/ While
    \/ Fetch
    \/ For
    \/ Details
    \/ Scrape
    \/ AppendRow
    \/ Paginate
    \/ AfterLoop
    \/ Except

Spec == Init /\ [][Next]_vars

\* the interpreter runs the function to its return: a step that can be taken is taken
FairSpec == Spec /\ WF_vars(Next)

-----------------------------------------------------------------------------
(* The runs of extract_valid_emails_from_website taken alone *)

MaxEmailsAll == -2..3

InitScraper ==
    /\ max_results = DefaultMaxResults
    /\ min_rating = 0
    /\ max_price_level = 4
    /\ scrape_emails = TRUE
    /\ max_emails \in MaxEmailsAll
    /\ upstream = [mode |-> "varied", pageNo |-> 0, served |-> 0]
    /\ pc = "scraper"
    /\ InitLocals
    /\ site \in AllPages
    /\ emails_out = NotRun

Extract ==
    /\ pc = "scraper"
    /\ emails_out = NotRun
    /\ emails_out' = extract_valid_emails_from_website(site, max_emails)
    /\ UNCHANGED <<inputs, pc, locals, result, history, site>>

NextScraper == Extract

SpecScraper == InitScraper /\ [][NextScraper]_vars

-----------------------------------------------------------------------------
(* Properties *)

Returned == pc = "returned"
Last(q) == q[Len(q)]
SamePlace(a, b) == a.pg = b.pg /\ a.i = b.i /\ a.id = b.id
PlaceRows == IF output.columns = "place" THEN output.rows ELSE <<>>

\* the cap the loop works with, written out by cases of max_results
CodeCap ==
    IF max_results = 0 THEN DefaultMaxResults
    ELSE IF max_results > MaxFetchCap THEN MaxFetchCap
    ELSE max_results

PassesFilter(row) == row.rating >= min_rating /\ row.price_level <= max_price_level

PlaceById(id) == CHOOSE p \in PlacePool \cup {PlaceK} : p.place_id = id

\* C2: every accumulated row, and every row of the returned table, has
\* rating >= min_rating and price_level <= max_price_level, a missing rating or
\* price_level counting as 0.
C2_RowsPassFilter ==
    /\ \A k \in 1..Len(all_results) :
          /\ PassesFilter(all_results[k])
          /\ LET p == PlaceById(all_results[k].place_id)
             IN  /\ all_results[k].rating = IF p.rating = <<>> THEN 0 ELSE p.rating[1]
                 /\ all_results[k].price_level =
                        IF p.price_level = <<>> THEN 0 ELSE p.price_level[1]
    /\ \A k \in 1..Len(PlaceRows) : PassesFilter(PlaceRows[k])

\* C2, witness: a returned table holding a place without rating and price_level,
\* from a run that rejected another place.
C2_Witness ==
    /\ Returned
    /\ \E k \in 1..Len(PlaceRows) : PlaceRows[k].place_id = "pB"
    /\ \E j \in 1..Len(trace) : trace[j].op = "reject"

FailedSearch(s) == s.outcome \in {"network", "http"}
ErrorText(s) == IF s.outcome = "network" THEN "ConnectionError" ELSE "HTTPError"

\* C3: when a text-search request fails with a network error or an HTTP error
\* status, it is the last request of the run, and the run returns a table of
\* exactly one row, the error message, with the status set to "Error: <message>";
\* no accumulated row is in it.
C3_SearchFailureGivesErrorRow ==
    \A k \in 1..Len(searches) :
        FailedSearch(searches[k]) =>
            /\ k = Len(searches)
            /\ pc \in {"except", "returned"}
            /\ Returned =>
                  /\ output.columns = "error"
                  /\ output.rows = << [error |-> ErrorText(searches[k])] >>
                  /\ status = "Error: " \o ErrorText(searches[k])

\* C3, witness: a follow-up request fails after rows were accumulated.
C3_Witness ==
    /\ Returned
    /\ Len(searches) >= 2
    /\ FailedSearch(Last(searches))
    /\ all_results # <<>>

\* C4, as claimed: whatever the details request gives, a faulty response leaves an
\* empty detail record and the run on its way to appending the row, the row
\* appended has no phone, website or e-mails, and no exception of the details
\* handling (line 147) takes the run to the Failure path.
C4_DetailFailureNeverAborts ==
    /\ exc.line # 147
    /\ (trace # <<>> /\ Last(trace).op = "details" /\ Last(trace).fault) =>
          /\ details = EmptyDict
          /\ pc = "append"
    /\ (Len(trace) >= 2 /\ Last(trace).op = "append"
            /\ trace[Len(trace) - 1].op = "details" /\ trace[Len(trace) - 1].fault) =>
          /\ Last(all_results).phone_number = <<>>
          /\ Last(all_results).website = <<>>
          /\ Last(all_results).emails = <<>>

\* C4, on the responses get_place_details handles itself (a network error, an HTTP
\* error status, a body that is no JSON or no dict, a dict without "result"): the
\* claim's three parts hold.
DetailsFailureHandled ==
    \A j \in 1..Len(trace) :
        (trace[j].op = "details" /\ trace[j].id = "pB") =>
            /\ trace[j].fault
            /\ j = Len(trace) => details = EmptyDict /\ pc = "append"
            /\ j < Len(trace) => trace[j + 1].op = "append" /\ SamePlace(trace[j], trace[j + 1])

\* C5: the first request carries the query and no cursor, at time 0; every later
\* request carries the cursor of the response before it and no query, 2 seconds
\* of sleep after it, the sleep being the event right before the request; and the
\* clock is ahead of the last request only when another request is about to be made.
C5_PaginationOrder ==
    /\ \A k \in 1..Len(searches) :
          IF k = 1
          THEN searches[k].query /\ searches[k].cursor = 0 /\ searches[k].at = 0
          ELSE /\ ~searches[k].query
               /\ searches[k - 1].token # 0
               /\ searches[k].cursor = searches[k - 1].token
               /\ searches[k].at = searches[k - 1].at + SleepSeconds
    /\ \A j \in 1..Len(trace) :
          /\ (trace[j].op = "search" /\ j > 1) => trace[j - 1].op = "sleep"
          /\ (trace[j].op = "sleep") =>
                /\ j > 1
                /\ trace[j - 1].op \in {"append", "reject"}
                /\ j < Len(trace) => trace[j + 1].op = "search"
    /\ Cardinality({j \in 1..Len(trace) : trace[j].op = "search"}) = Len(searches)
    /\ IF searches = <<>> THEN clock = 0
       ELSE \/ clock = Last(searches).at
            \/ /\ clock = Last(searches).at + SleepSeconds
               /\ pc \in {"while", "fetch"}
               /\ Last(trace).op = "sleep"

\* C5, witness: a run of three requests has returned.
C5_Witness ==
    /\ Returned
    /\ Len(searches) >= 3
    /\ clock = 2 * SleepSeconds

\* C6: a run that ends without failure returns the single row "No results found."
\* when no row was accumulated, and exactly the accumulated rows otherwise.
C6_FinalTable ==
    (Returned /\ exc = NoExc) =>
        IF all_results = <<>>
        THEN /\ output.columns = "message"
             /\ output.rows = << [message |-> "No results found."] >>
             /\ status = "No results found."
        ELSE /\ output.columns = "place"
             /\ output.rows = all_results

\* C6, witness: two pages were fetched, each with places, all of them rejected.
C6_Witness ==
    /\ Returned
    /\ output.columns = "message"
    /\ Len(searches) >= 2
    /\ \E j \in 1..Len(trace) : trace[j].op = "reject" /\ trace[j].pg = 1
    /\ \E j \in 1..Len(trace) : trace[j].op = "reject" /\ trace[j].pg = 2

ScrapeFailed == site.net = "error" \/ site.status_code # HttpOk \/ site.empty

\* the matches with no denylisted substring, compared in lower case
ValidMatches == {e \in Range(site.raw_emails) : IsValidEmail(e)}

\* the first n elements of a sequence, none when n is not positive
FirstN(s, n) == IF n <= 0 THEN <<>> ELSE SubSeq(s, 1, Min(n, Len(s)))

Ascending(s) == \A i \in 1..(Len(s) - 1) : StrLess(s[i], s[i + 1])

CountChar(str, c) == Cardinality({i \in 1..Len(str) : str[i] = c})

\* C7, as claimed: for every integer max_emails the value returned is null or the
\* ", "-join of the first max_emails elements of the sorted, de-duplicated,
\* denylist-filtered matches, so at most max_emails addresses, in ascending
\* order; and it is null exactly when that list is empty or the fetch failed.
C7_EmailsContract ==
    emails_out # NotRun =>
        LET want == FirstN(Sorted(ValidMatches), max_emails)
        IN  IF ScrapeFailed \/ want = <<>>
            THEN emails_out = <<>>
            ELSE /\ emails_out = << Join(want, CommaSpace) >>
                 /\ CountChar(emails_out[1], "@") <= max_emails
                 /\ Ascending(want)
                 /\ \A i \in 1..Len(want) : IsValidEmail(want[i])

\* C7, for max_emails >= 0: the contract holds.
ScraperContractNonNegative == max_emails >= 0 => C7_EmailsContract

\* C8: when every step that can be taken is taken (every HTTP call returns), every
\* run of search_results returns its table, whatever the pages hold and whatever
\* the filter rejects.
C8_Terminates == <>Returned

\* C8, witness: a run returned after asking for every page the upstream has,
\* each with places, every place rejected by the filter.
C8_Witness ==
    /\ Returned
    /\ exc = NoExc
    /\ fetched = 0
    /\ Len(searches) = PagesOf(upstream.mode)
    /\ \A g \in 1..Len(searches) :
          \E j \in 1..Len(trace) : trace[j].op = "reject" /\ trace[j].pg = g

IsFilter(e) == e.op \in {"accept", "reject"}

\* C9, as claimed: the filter is applied to a place only after the detail fetcher
\* (and the scraper, when due) was called for it.
C9_DetailsBeforeFilter ==
    \A j \in 1..Len(trace) :
        IsFilter(trace[j]) =>
            /\ j > 1
            /\ trace[j - 1].op \in {"details", "scrape"}
            /\ SamePlace(trace[j - 1], trace[j])

\* C9, amended: the places of a page are taken in page order; for each the filter
\* comes first, a rejected place gets no call at all, an accepted one gets the
\* detail fetch, then the scrape if and only if scrape_emails is set and the
\* detail has a website, then the row is appended; the next place is taken only
\* after that.
C9_PlaceOrder ==
    \A j \in 1..Len(trace) :
        LET e == trace[j]
            first == j > 1 /\ trace[j - 1].op = "search"
                           /\ trace[j - 1].pg = e.pg /\ e.i = 1
            next == j > 1 /\ trace[j - 1].op \in {"reject", "append"}
                          /\ trace[j - 1].pg = e.pg /\ e.i = trace[j - 1].i + 1
        IN  /\ IsFilter(e) => (first \/ next)
            /\ IsFilter(e) => /\ e.pg <= upstream.pageNo
                              /\ e.pg = upstream.pageNo =>
                                    /\ e.i <= Len(data.results)
                                    /\ e.id = data.results[e.i].place_id
            /\ e.op = "details" =>
                  trace[j - 1].op = "accept" /\ SamePlace(trace[j - 1], e)
            /\ e.op = "scrape" =>
                  /\ trace[j - 1].op = "details" /\ SamePlace(trace[j - 1], e)
                  /\ scrape_emails /\ trace[j - 1].w # <<>>
            /\ e.op = "append" =>
                  /\ SamePlace(trace[j - 1], e)
                  /\ \/ trace[j - 1].op = "scrape"
                     \/ /\ trace[j - 1].op = "details"
                        /\ ~(scrape_emails /\ trace[j - 1].w # <<>>)
            /\ (e.op \in {"search", "sleep"} /\ j > 1) =>
                  trace[j - 1].op \in {"reject", "append", "sleep"}

\* C9, witness: a run that rejected the first place of a page, then fetched the
\* detail of the second, scraped its website and appended its row.
C9_Witness ==
    /\ Returned
    /\ Len(trace) >= 5
    /\ \E j \in 2..(Len(trace) - 3) :
          /\ trace[j].op = "reject" /\ trace[j].i = 1
          /\ trace[j + 1].op = "accept" /\ trace[j + 1].i = 2
          /\ trace[j + 2].op = "details"
          /\ trace[j + 3].op = "scrape"
    /\ Last(trace).op = "append"

\* what is left to a run whose counter is at the cap: leave the loops and return
Quiet == /\ trace' = trace
         /\ searches' = searches
         /\ clock' = clock
         /\ pc' \in {"paginate", "after_loop", "returned"}

=============================================================================
